---- MODULE Spec2Model ----
(***************************************************************************)
(* Model of obi's directed graph engine (System, src/obi/builders/graph.py)*)
(* and of the helpers it calls.                                            *)
(*                                                                         *)
(* A node is modelled by its name: Node.__hash__/__eq__ compare names, and *)
(* convert.namify maps a str to itself and a Node to its name.             *)
(*                                                                         *)
(* 'contents' is a Python dict: a sequence of entries [k, v] in insertion  *)
(* order with distinct keys.  A value is either a set of nodes or None     *)
(* (None appears because System.delete stores the result of set.discard).  *)
(* 'vivify' tells whether the dict is a collections.defaultdict(set), for  *)
(* which reading a missing key inserts it with an empty set.               *)
(*                                                                         *)
(* 'x in self' and 'self[x]' on a System go through its Dictionary base,   *)
(* which delegates to 'contents'; they are modelled as the dict's own      *)
(* membership test and lookup.                                             *)
(***************************************************************************)
EXTENDS Integers, Sequences, FiniteSets, TLC

VARIABLES
    contents,   \* the System's dict, in insertion order
    vivify,     \* contents is a defaultdict(set)
    pc,         \* "idle": no call pending; "returned": a call has just ended
    pre,        \* contents as the call that has just ended found it
    last,       \* the call that has just ended
    steps,      \* calls made so far
    out         \* what the call that has just ended returned

vars == <<contents, vivify, pc, pre, last, steps, out>>

\* Number of public calls made on the System in one behaviour.
MaxOps == 3

\* Longest list of edges handed to a converter.
MaxEdges == 3

\* Longest list of nodes handed to a converter.
MaxLen == 3

\* Largest number of rows of a matrix handed to a converter.
MaxSide == 2

\* Deepest recursion of walk that is followed.
MaxDepth == 6

Nodes == {"a", "b", "c"}

\* The value stored under a key: a set of nodes, or None.
SetVal(S) == [isset |-> TRUE, s |-> S]

NoneVal == [isset |-> FALSE, s |-> {}]

\* Nothing returned (None).
NoOut == [kind |-> "None"]

(***************************************************************************)
(* dict primitives                                                         *)
(***************************************************************************)
Keys(c) == {c[i].k : i \in DOMAIN c}

Has(c, n) == n \in Keys(c)

Index(c, n) == CHOOSE i \in DOMAIN c : c[i].k = n

\* d[n] for a key n of d.
Get(c, n) == c[Index(c, n)].v

\* d[n] = v : an existing key keeps its position, a new key goes last.
Put(c, n, v) ==
    IF Has(c, n)
        THEN [i \in DOMAIN c |-> IF c[i].k = n THEN [k |-> n, v |-> v] ELSE c[i]]
        ELSE Append(c, [k |-> n, v |-> v])

\* del d[n]
Del(c, n) == SelectSeq(c, LAMBDA e : e.k # n)

\* d.update(other): every entry of other, in other's order.
RECURSIVE Update(_, _)
Update(c, other) ==
    IF other = <<>> THEN c
    ELSE Update(Put(c, Head(other).k, Head(other).v), Tail(other))

\* The mapping a dict denotes, whatever its insertion order.
AsMap(c) == [n \in Keys(c) |-> Get(c, n)]

\* Values are sets, and every successor is a key.
WellFormed(c) ==
    \A i \in DOMAIN c : c[i].v.isset /\ c[i].v.s \subseteq Keys(c)

(***************************************************************************)
(* System.endpoint, System.root                                            *)
(***************************************************************************)
\* {k for k in contents.keys() if not contents[k]}: None and set() are falsy.
Endpoint(c) == {n \in Keys(c) : ~Get(c, n).isset \/ Get(c, n).s = {}}

\* root taken as the keys that have no successor.
RootOpNoSuccessor(c) ==
    IF \E i \in DOMAIN c : ~c[i].v.isset
        THEN [val |-> {}, res |-> "TypeError"]
        ELSE [val |-> {n \in Keys(c) : Get(c, n).s = {}}, res |-> "ok"]

\* itertools.chain.from_iterable(contents.values()) cannot iterate None.
RootOp(c) ==
    IF \E i \in DOMAIN c : ~c[i].v.isset
        THEN [val |-> {}, res |-> "TypeError"]
        ELSE [val |-> {n \in Keys(c) : \A i \in DOMAIN c : n \notin c[i].v.s},
              res |-> "ok"]

(***************************************************************************)
(* System.add and System.connect (each calls the other)                    *)
(***************************************************************************)
RECURSIVE AddOp(_, _, _, _, _, _)
RECURSIVE ConnectOp(_, _, _)
RECURSIVE AddAncestors(_, _, _)

\* The loop 'for start in ancestors' of add.
AddAncestors(c, node, anc) ==
    IF anc = <<>> THEN [c |-> c, res |-> "ok"]
    ELSE LET start == Head(anc)
             v == Get(c, start)
         IN IF ~v.isset THEN [c |-> c, res |-> "TypeError"]
            ELSE IF node \in v.s THEN AddAncestors(c, node, Tail(anc))
            ELSE LET r == ConnectOp(c, start, node)
                 IN IF r.res # "ok" THEN r
                    ELSE AddAncestors(r.c, node, Tail(anc))

\* add, had it left a node that is a key already as it is.
AddOpKeepsExisting(c, node, ancGiven, anc, descGiven, desc) ==
    LET missingDesc == {n \in desc : ~Has(c, n)}
        first == IF ~descGiven
                     THEN [c |-> IF Has(c, node) THEN c
                                 ELSE Put(c, node, SetVal({})), res |-> "ok"]
                 ELSE IF missingDesc # {} THEN [c |-> c, res |-> "KeyError"]
                 ELSE [c |-> Put(c, node, SetVal(desc)), res |-> "ok"]
        missingAnc == {anc[i] : i \in {j \in DOMAIN anc : ~Has(first.c, anc[j])}}
    IN IF first.res # "ok" \/ ~ancGiven THEN first
       ELSE IF missingAnc # {} THEN [c |-> first.c, res |-> "KeyError"]
       ELSE AddAncestors(first.c, node, anc)

\* add, had it stored the node before looking for missing descendants.
AddOpStoresFirst(c, node, ancGiven, anc, descGiven, desc) ==
    LET missingDesc == {n \in desc : ~Has(c, n)}
        stored == Put(c, node, SetVal({}))
        first == IF ~descGiven THEN [c |-> stored, res |-> "ok"]
                 ELSE IF missingDesc # {} THEN [c |-> stored, res |-> "KeyError"]
                 ELSE [c |-> Put(c, node, SetVal(desc)), res |-> "ok"]
        missingAnc == {anc[i] : i \in {j \in DOMAIN anc : ~Has(first.c, anc[j])}}
    IN IF first.res # "ok" \/ ~ancGiven THEN first
       ELSE IF missingAnc # {} THEN [c |-> first.c, res |-> "KeyError"]
       ELSE AddAncestors(first.c, node, anc)

\* add(node, ancestors, descendants); ancGiven/descGiven: the argument is
\* not None.  desc is the set of the descendants list, anc the list itself.
AddOp(c, node, ancGiven, anc, descGiven, desc) ==
    LET missingDesc == {n \in desc : ~Has(c, n)}
        first == IF ~descGiven THEN [c |-> Put(c, node, SetVal({})), res |-> "ok"]
                 ELSE IF missingDesc # {} THEN [c |-> c, res |-> "KeyError"]
                 ELSE [c |-> Put(c, node, SetVal(desc)), res |-> "ok"]
        missingAnc == {anc[i] : i \in {j \in DOMAIN anc : ~Has(first.c, anc[j])}}
    IN IF first.res # "ok" \/ ~ancGiven THEN first
       ELSE IF missingAnc # {} THEN [c |-> first.c, res |-> "KeyError"]
       ELSE AddAncestors(first.c, node, anc)

\* connect, had it added a missing start before testing start == stop.
ConnectOpChecksLate(c, start, stop) ==
    LET c1 == IF ~Has(c, start) THEN AddOp(c, start, FALSE, <<>>, FALSE, {}).c
              ELSE IF ~Has(c, stop) THEN AddOp(c, stop, FALSE, <<>>, FALSE, {}).c
              ELSE c
        v == Get(c1, start)
    IN IF start = stop THEN [c |-> c1, res |-> "ValueError"]
       ELSE IF ~v.isset THEN [c |-> c1, res |-> "TypeError"]
       ELSE [c |-> Put(c1, start, SetVal(v.s \cup {stop})), res |-> "ok"]

\* connect(start, stop)
ConnectOp(c, start, stop) ==
    IF start = stop THEN [c |-> c, res |-> "ValueError"]
    ELSE LET c1 == IF ~Has(c, start) THEN AddOp(c, start, FALSE, <<>>, FALSE, {}).c
                   ELSE IF ~Has(c, stop) THEN AddOp(c, stop, FALSE, <<>>, FALSE, {}).c
                   ELSE c
             v == Get(c1, start)
         IN IF ~v.isset THEN [c |-> c1, res |-> "TypeError"]
            ELSE [c |-> Put(c1, start, SetVal(v.s \cup {stop})), res |-> "ok"]

(***************************************************************************)
(* System.delete, System.disconnect                                        *)
(***************************************************************************)
\* delete(node).  The comprehension {k: v.discard(node) ...} discards node
\* from each set in place, in dict order, and maps every key to None; it
\* stops with AttributeError at the first value that is already None, and
\* then 'contents' is not rebound.  'plain' says that 'contents' was rebound
\* to the new plain dict.
DeleteOp(c, node) ==
    IF ~Has(c, node) THEN [c |-> c, res |-> "KeyError", plain |-> FALSE]
    ELSE LET c1 == Del(c, node)
             nones == {i \in DOMAIN c1 : ~c1[i].v.isset}
             stop == CHOOSE i \in nones : \A j \in nones : i <= j
         IN IF nones = {}
                THEN [c |-> [i \in DOMAIN c1 |-> [k |-> c1[i].k, v |-> NoneVal]],
                      res |-> "ok", plain |-> TRUE]
                ELSE [c |-> [i \in DOMAIN c1 |->
                                IF i < stop
                                    THEN [k |-> c1[i].k,
                                          v |-> SetVal(c1[i].v.s \ {node})]
                                    ELSE c1[i]],
                      res |-> "AttributeError", plain |-> FALSE]

\* disconnect(start, stop): contents[start] on a defaultdict inserts a
\* missing start instead of raising KeyError.
DisconnectOp(c, viv, start, stop) ==
    IF ~Has(c, start)
        THEN IF viv THEN [c |-> Put(c, start, SetVal({})), res |-> "ok"]
             ELSE [c |-> c, res |-> "KeyError"]
    ELSE LET v == Get(c, start)
         IN IF ~v.isset THEN [c |-> c, res |-> "AttributeError"]
            ELSE [c |-> Put(c, start, SetVal(v.s \ {stop})), res |-> "ok"]

(***************************************************************************)
(* System.merge                                                            *)
(***************************************************************************)
\* d.update(other), had it united the successor sets of a key held by both.
RECURSIVE UpdateUnion(_, _)
UpdateUnion(c, other) ==
    IF other = <<>> THEN c
    ELSE LET e == Head(other)
             v == IF Has(c, e.k) /\ Get(c, e.k).isset
                      THEN SetVal(Get(c, e.k).s \cup e.v.s) ELSE e.v
         IN UpdateUnion(Put(c, e.k, v), Tail(other))

\* merge with union semantics.
MergeOpUnion(c, item) ==
    IF item.kind = "System" THEN [c |-> UpdateUnion(c, item.adj), res |-> "ok"]
    ELSE IF item.kind = "Node"
        THEN [c |-> Update(c, <<[k |-> item.name, v |-> SetVal({})]>>), res |-> "ok"]
    ELSE [c |-> c, res |-> "TypeError"]

\* merge(item): item is a System (its adjacency is its contents), a Node,
\* or a value of no accepted type.
MergeOp(c, item) ==
    IF item.kind = "System" THEN [c |-> Update(c, item.adj), res |-> "ok"]
    ELSE IF item.kind = "Node"
        THEN [c |-> Update(c, <<[k |-> item.name, v |-> SetVal({})]>>), res |-> "ok"]
    ELSE [c |-> c, res |-> "TypeError"]

(***************************************************************************)
(* System.append                                                           *)
(***************************************************************************)
\* self.create(item = item): the graph built from item.  'create' is not
\* defined in the sources at hand; it is taken to build a System holding
\* item's adjacency.
Create(item) == item.adj

\* isinstance(item, composite.Graph), for the item kinds of the model.
IsGraph(item) == item.kind = "System"

\* The elements of the set S in the iteration order ord (a list of all nodes).
Listed(S, ord) == SelectSeq(ord, LAMBDA n : n \in S)

\* 'for root in new_graph.root: self.connect(endpoint, root)'.  After merge
\* the sets of new_graph are the very objects stored in self.contents, so an
\* edge added in place under a key of new_graph shows in new_graph too.
RECURSIVE AppendRoots(_, _, _)
AppendRoots(st, end, roots) ==
    IF roots = <<>> \/ st.res # "ok" THEN st
    ELSE LET r == ConnectOp(st.c, end, Head(roots))
             ng == IF r.res = "ok" /\ Has(st.ng, end)
                       THEN Put(st.ng, end, Get(r.c, end))
                       ELSE st.ng
         IN AppendRoots([c |-> r.c, ng |-> ng, res |-> r.res], end, Tail(roots))

\* 'for endpoint in current_endpoints: ...'; new_graph.root is evaluated
\* anew for each endpoint.
RECURSIVE AppendEndpoints(_, _, _)
AppendEndpoints(st, ends, ord) ==
    IF ends = <<>> \/ st.res # "ok" THEN st
    ELSE LET roots == RootOp(st.ng)
         IN IF roots.res # "ok" THEN [st EXCEPT !.res = roots.res]
            ELSE AppendEndpoints(
                     AppendRoots(st, Head(ends), Listed(roots.val, ord)),
                     Tail(ends), ord)

\* append(item); ord is the order in which sets are iterated.
AppendOp(c, item, ord) ==
    IF ~IsGraph(item) THEN [c |-> c, res |-> "TypeError"]
    ELSE LET current_endpoints == Listed(Endpoint(c), ord)
             new_graph == Create(item)
             merged == MergeOp(c, [kind |-> "System", adj |-> new_graph, name |-> ""])
             done == AppendEndpoints(
                         [c |-> merged.c, ng |-> new_graph, res |-> merged.res],
                         current_endpoints, ord)
         IN [c |-> done.c, res |-> done.res]

(***************************************************************************)
(* System.prepend                                                          *)
(***************************************************************************)
\* prepend(item).  The inner loop reads 'new_graph.endpoints'; a System has
\* the property 'endpoint' and no attribute 'endpoints', so the first pass of
\* the outer loop raises AttributeError, after the merge.
PrependOp(c, item) ==
    IF ~IsGraph(item) THEN [c |-> c, res |-> "TypeError"]
    ELSE LET current_roots == RootOp(c)
             new_graph == Create(item)
             merged == MergeOp(c, [kind |-> "System", adj |-> new_graph, name |-> ""])
         IN IF current_roots.res # "ok" THEN [c |-> c, res |-> current_roots.res]
            ELSE IF current_roots.val # {} THEN [c |-> merged.c, res |-> "AttributeError"]
            ELSE merged

(***************************************************************************)
(* System.subset                                                           *)
(***************************************************************************)
\* The elements of a list ('x in list').
Elems(l) == {l[i] : i \in DOMAIN l}

\* The keys of a dict in iteration order.
KeyList(c) == [i \in DOMAIN c |-> c[i].k]

\* copy.deepcopy(self) as if it handed back the graph itself.
DeepCopyShared(c) == [c |-> c, same |-> TRUE]

\* copy.deepcopy(self): a graph with equal contents that shares no object
\* with 'self' ('same' tells whether the copy is the object it was made of).
DeepCopy(c) == [c |-> c, same |-> FALSE]

\* The loop 'for node in excludables: new_graph.delete(node)'; the first
\* delete that raises ends it.
RECURSIVE DeleteEach(_, _)
DeleteEach(c, excludables) ==
    IF excludables = <<>> THEN [c |-> c, res |-> "ok"]
    ELSE LET r == DeleteOp(c, Head(excludables))
         IN IF r.res # "ok" THEN [c |-> r.c, res |-> r.res]
            ELSE DeleteEach(r.c, Tail(excludables))

\* subset(include, exclude): 'self' is the graph the call leaves behind,
\* 'new' the graph it returns.  'i in exclude' with exclude = None raises
\* TypeError as soon as there is a key to test; an empty include is falsy.
SubsetOp(c, incGiven, inc, excGiven, exc) ==
    IF ~incGiven /\ ~excGiven
        THEN [self |-> c, new |-> NoOut, res |-> "ValueError"]
    ELSE IF ~excGiven /\ c # <<>>
        THEN [self |-> c, new |-> NoOut, res |-> "TypeError"]
    ELSE LET first == IF incGiven /\ inc # <<>>
                          THEN SelectSeq(KeyList(c), LAMBDA k : k \notin Elems(inc))
                          ELSE <<>>
             excludables ==
                 first \o SelectSeq(KeyList(c), LAMBDA i : i \in exc)
             new_graph == DeepCopy(c)
             r == DeleteEach(new_graph.c, excludables)
         IN [self |-> IF new_graph.same THEN r.c ELSE c,
             new |-> IF r.res = "ok"
                         THEN [kind |-> "System", c |-> r.c,
                               same |-> new_graph.same]
                         ELSE NoOut,
             res |-> r.res]

(***************************************************************************)
(* System.walk, System.paths                                               *)
(***************************************************************************)
\* walk with the test for a missing key made before the test for the stop.
RECURSIVE WalkOpKeyFirst(_, _, _, _, _)
WalkOpKeyFirst(c, start, stop, path, ord) ==
    LET new == Append(path, start)
        RECURSIVE Each(_)
        Each(nodes) ==
            IF nodes = <<>> THEN <<>>
            ELSE (IF Head(nodes) \notin Elems(new)
                      THEN WalkOpKeyFirst(c, Head(nodes), stop, new, ord)
                      ELSE <<>>) \o Each(Tail(nodes))
    IN IF ~Has(c, start) THEN <<>>
       ELSE IF start = stop THEN <<new>>
       ELSE Each(Listed(Get(c, start).s, ord))

\* walk(start, stop, path): the list of paths found, 'ord' being the order
\* in which the successor sets are iterated.  The graphs walked hold sets.
RECURSIVE WalkOp(_, _, _, _, _)
WalkOp(c, start, stop, path, ord) ==
    LET new == Append(path, start)
        RECURSIVE Each(_)
        Each(nodes) ==
            IF nodes = <<>> THEN <<>>
            ELSE (IF Head(nodes) \notin Elems(new)
                      THEN WalkOp(c, Head(nodes), stop, new, ord)
                      ELSE <<>>) \o Each(Tail(nodes))
    IN IF start = stop THEN <<new>>
       ELSE IF ~Has(c, start) THEN <<>>
       ELSE Each(Listed(Get(c, start).s, ord))

\* isinstance(path, composite.Node) for a path, which is a list of nodes.
IsNode(path) == FALSE

\* _find_all_paths with starts and stops taken for each other.
FindAllPathsBackwards(c, starts, stops, ord) ==
    LET RECURSIVE Stops(_, _)
        Stops(start, ends) ==
            IF ends = <<>> THEN <<>>
            ELSE WalkOp(c, Head(ends), start, <<>>, ord) \o Stops(start, Tail(ends))
        RECURSIVE Starts(_)
        Starts(ss) ==
            IF ss = <<>> THEN <<>>
            ELSE Stops(Head(ss), Listed(stops, ord)) \o Starts(Tail(ss))
    IN Starts(Listed(starts, ord))

\* _find_all_paths(starts, stops): for every start and every stop, the paths
\* walk finds, appended as one entry when every path is a Node and added one
\* by one otherwise.
FindAllPaths(c, starts, stops, ord) ==
    LET Found(all_paths, paths) ==
            IF paths = <<>> THEN all_paths
            ELSE IF \A i \in DOMAIN paths : IsNode(paths[i])
                THEN Append(all_paths, paths)
                ELSE all_paths \o paths
        RECURSIVE Stops(_, _, _)
        Stops(all_paths, start, ends) ==
            IF ends = <<>> THEN all_paths
            ELSE Stops(Found(all_paths, WalkOp(c, start, Head(ends), <<>>, ord)),
                       start, Tail(ends))
        RECURSIVE Starts(_, _)
        Starts(all_paths, ss) ==
            IF ss = <<>> THEN all_paths
            ELSE Starts(Stops(all_paths, Head(ss), Listed(stops, ord)), Tail(ss))
    IN Starts(<<>>, Listed(starts, ord))

(***************************************************************************)
(* The lookups self.contents[key] the queries make                         *)
(***************************************************************************)
\* The dict after self.contents[n] has been read for every n in 'keys': a
\* defaultdict(set) stores set() under each key it does not have.
Looked(c, viv, keys) ==
    IF ~viv THEN c
    ELSE c \o [i \in DOMAIN Listed(keys \ Keys(c), <<"a", "b", "c", "d">>) |->
                 [k |-> Listed(keys \ Keys(c), <<"a", "b", "c", "d">>)[i],
                  v |-> SetVal({})]]

\* walk reading self.contents[start] whether start is a key or not.
RECURSIVE WalkLookupsUnguarded(_, _, _, _)
WalkLookupsUnguarded(c, start, stop, path) ==
    LET new == Append(path, start)
    IN IF start = stop THEN {}
       ELSE {start} \cup
            (IF ~Has(c, start) THEN {}
             ELSE UNION {WalkLookupsUnguarded(c, node, stop, new) :
                           node \in Get(c, start).s \ Elems(new)})

\* The keys for which walk(start, stop, path) reads self.contents[key]: the
\* start of every call that gets past both returns.
RECURSIVE WalkLookups(_, _, _, _)
WalkLookups(c, start, stop, path) ==
    LET new == Append(path, start)
    IN IF start = stop THEN {}
       ELSE IF ~Has(c, start) THEN {}
       ELSE {start} \cup
            UNION {WalkLookups(c, node, stop, new) :
                     node \in Get(c, start).s \ Elems(new)}

\* The keys endpoint reads: self.contents[k] for every key k.
EndpointLookups(c) == Keys(c)

\* The keys paths reads: those of endpoint and of every walk it makes.
PathsLookups(c, starts, stops) ==
    EndpointLookups(c) \cup
        UNION {WalkLookups(c, start, end, <<>>) : start \in starts, end \in stops}

(***************************************************************************)
(* convert.adjacency_to_matrix, convert.matrix_to_adjacency                *)
(***************************************************************************)
\* The integer i used as a key of the dict.  The node labels are strings, so
\* no node is equal to an integer.
IntKey(i) == <<"0", "1", "2", "3", "4", "5", "6", "7">>[i + 1]

\* The loop 'for i in range(len(item))' from row i on; n is len(item) as it
\* was when the loop began.  item[i] raises KeyError on a dict, and makes a
\* defaultdict(set) store set() under i; '[0] * len(item)' has the length the
\* dict has by then.
RECURSIVE MatrixRows(_, _, _, _, _)
MatrixRows(c, viv, n, i, matrix) ==
    IF i = n THEN [c |-> c, matrix |-> matrix, res |-> "ok"]
    ELSE LET row == [j \in 1..Len(c) |-> 0]
             c1 == IF Has(c, IntKey(i)) THEN c ELSE Put(c, IntKey(i), SetVal({}))
         IN IF ~Has(c, IntKey(i)) /\ ~viv
                THEN [c |-> c, matrix |-> Append(matrix, row), res |-> "KeyError"]
            ELSE IF ~Get(c1, IntKey(i)).isset \/ Get(c1, IntKey(i)).s # {}
                THEN [c |-> c1, matrix |-> Append(matrix, row), res |-> "TypeError"]
            ELSE MatrixRows(c1, viv, n, i + 1, Append(matrix, row))

\* adjacency_to_matrix(item): the matrix, the names, and the dict as the call
\* leaves it.
AdjacencyToMatrixOp(c, viv) ==
    LET names == KeyList(c)
        r == MatrixRows(c, viv, Len(c), 0, <<>>)
    IN [c |-> r.c, matrix |-> r.matrix, names |-> names, res |-> r.res]

\* matrix_to_adjacency((matrix, names)): row i becomes the key names[i] with
\* the names of the columns holding a non-zero entry; a row or column past the
\* names raises KeyError.
MatrixToAdjacencyOp(matrix, names) ==
    LET RECURSIVE Rows(_, _)
        Rows(adjacency, i) ==
            IF i > Len(matrix) THEN [c |-> adjacency, res |-> "ok"]
            ELSE LET value == {j \in DOMAIN matrix[i] : matrix[i][j] # 0}
                 IN IF i > Len(names) \/ \E j \in value : j > Len(names)
                        THEN [c |-> adjacency, res |-> "KeyError"]
                        ELSE Rows(Put(adjacency, names[i],
                                      SetVal({names[j] : j \in value})), i + 1)
    IN Rows(<<>>, 1)

(***************************************************************************)
(* convert.edges_to_adjacency                                              *)
(***************************************************************************)
\* edges_to_adjacency without the step that makes the stop of an edge a key.
EdgesToAdjacencyOpStartsOnly(item) ==
    LET RECURSIVE Pairs(_, _)
        Pairs(adjacency, rest) ==
            IF rest = <<>> THEN adjacency
            ELSE LET edge_pair == Head(rest)
                 IN Pairs(IF ~Has(adjacency, edge_pair[1])
                              THEN Put(adjacency, edge_pair[1],
                                       SetVal({edge_pair[2]}))
                              ELSE Put(adjacency, edge_pair[1],
                                       SetVal(Get(adjacency, edge_pair[1]).s
                                                  \cup {edge_pair[2]})),
                          Tail(rest))
    IN Pairs(<<>>, item)

\* edges_to_adjacency(item): for every edge in turn, the stop is stored in
\* the set under the start (a new set when the start is no key yet), and the
\* stop gets an empty set when it is no key yet.
EdgesToAdjacencyOp(item) ==
    LET RECURSIVE Pairs(_, _)
        Pairs(adjacency, rest) ==
            IF rest = <<>> THEN adjacency
            ELSE LET edge_pair == Head(rest)
                     a1 == IF ~Has(adjacency, edge_pair[1])
                               THEN Put(adjacency, edge_pair[1],
                                        SetVal({edge_pair[2]}))
                               ELSE Put(adjacency, edge_pair[1],
                                        SetVal(Get(adjacency, edge_pair[1]).s
                                                   \cup {edge_pair[2]}))
                     a2 == IF ~Has(a1, edge_pair[2])
                               THEN Put(a1, edge_pair[2], SetVal({}))
                               ELSE a1
                 IN Pairs(a2, Tail(rest))
    IN Pairs(<<>>, item)

(***************************************************************************)
(* convert.adjacency_to_edges                                              *)
(***************************************************************************)
\* adjacency_to_edges that emits an edge for the first connection only.
AdjacencyToEdgesOpFirstOnly(c, ord) ==
    LET RECURSIVE Items(_)
        Items(rest) ==
            IF rest = <<>> THEN <<>>
            ELSE LET connections == Listed(Head(rest).v.s, ord)
                 IN (IF connections = <<>> THEN <<>>
                     ELSE << <<Head(rest).k, Head(connections)>> >>)
                        \o Items(Tail(rest))
    IN Items(c)

\* adjacency_to_edges(item): for every key in turn and every connection in
\* its set (iterated in the order 'ord'), the tuple (node, connection).
AdjacencyToEdgesOp(c, ord) ==
    LET RECURSIVE Items(_)
        Items(rest) ==
            IF rest = <<>> THEN <<>>
            ELSE LET connections == Listed(Head(rest).v.s, ord)
                 IN [i \in DOMAIN connections |->
                        <<Head(rest).k, connections[i]>>] \o Items(Tail(rest))
    IN Items(c)

(***************************************************************************)
(* convert.windowify, convert.linear_to_adjacency                          *)
(***************************************************************************)
\* None, where it stands for a node.
NoneNode == "None"

\* windowify(item, length, fill_value) with the default step of 1: every run
\* of 'length' consecutive elements; when item is shorter than 'length', the
\* one window of item filled up with fill_value.
WindowifyOp(item, length, fill_value) ==
    IF length = 0 THEN << <<>> >>
    ELSE IF Len(item) < length
        THEN << item \o [i \in 1..(length - Len(item)) |-> fill_value] >>
        ELSE [i \in 1..(Len(item) - length + 1) |-> SubSeq(item, i, i + length - 1)]

\* check.is_linears(item) for a node or a list of nodes.
IsLinears(item) == FALSE

\* linear_to_adjacency(item).  A scalar is wrapped in a list; for a list of
\* one node the dict literal {item: set()} has the list itself as its key,
\* which is unhashable; otherwise every window of two gives its second node
\* to the set under its first, and nothing makes the second a key.
LinearToAdjacencyOp(item) ==
    LET list == IF item.kind = "Node" THEN <<item.name>> ELSE item.adj
        RECURSIVE Pairs(_, _)
        Pairs(adjacency, edges) ==
            IF edges = <<>> THEN adjacency
            ELSE LET edge_pair == Head(edges)
                 IN Pairs(IF Has(adjacency, edge_pair[1])
                              THEN Put(adjacency, edge_pair[1],
                                       SetVal(Get(adjacency, edge_pair[1]).s
                                                  \cup {edge_pair[2]}))
                              ELSE Put(adjacency, edge_pair[1],
                                       SetVal({edge_pair[2]})),
                          Tail(edges))
    IN IF IsLinears(item) THEN [c |-> <<>>, res |-> "AttributeError"]
       ELSE IF Len(list) = 1 THEN [c |-> <<>>, res |-> "TypeError"]
       ELSE [c |-> Pairs(<<>>, WindowifyOp(list, 2, NoneNode)), res |-> "ok"]

(***************************************************************************)
(* form.Edges.adjacency, form.Linear.adjacency, form.Matrix.adjacency      *)
(***************************************************************************)
\* Edges(contents).adjacency: edges_to_adjacency(self.contents).
EdgesAdjacency(contents_) == [c |-> EdgesToAdjacencyOp(contents_), res |-> "ok"]

\* Linear(contents).adjacency hands the list of nodes to matrix_to_adjacency,
\* which takes item[0] for the matrix and item[1] for the names.  Both are
\* node names here, strings of one character: the one row is the character
\* of item[0], which is truthy, and the one name is item[1].
LinearAdjacency(contents_) ==
    IF Len(contents_) < 2 THEN [c |-> <<>>, res |-> "IndexError"]
    ELSE [c |-> <<[k |-> contents_[2], v |-> SetVal({contents_[2]})]>>,
          res |-> "ok"]

\* Matrix(contents, labels).adjacency hands the rows alone to
\* matrix_to_adjacency, which takes the first row for the matrix and the
\* second for the names; the rows of that matrix are then integers, which
\* enumerate cannot iterate.
MatrixAdjacency(contents_, labels) ==
    IF Len(contents_) < 2 THEN [c |-> <<>>, res |-> "IndexError"]
    ELSE IF contents_[1] # <<>> THEN [c |-> <<>>, res |-> "TypeError"]
    ELSE [c |-> <<>>, res |-> "ok"]

(***************************************************************************)
(* Arguments of the calls                                                  *)
(***************************************************************************)
\* Lists of distinct nodes with at most two elements (ancestors).
NodeLists ==
    {<<>>} \cup {<<n>> : n \in Nodes}
           \cup {l \in {<<n, m>> : n \in Nodes, m \in Nodes} : l[1] # l[2]}

\* The orders in which a set of nodes may be iterated.
Orders ==
    {o \in [1..Cardinality(Nodes) -> Nodes] :
        \A n \in Nodes : \E i \in DOMAIN o : o[i] = n}

\* Well-formed adjacencies without self-loops over at most two keys.
Adjacencies ==
    {<<>>} \cup {<<[k |-> n, v |-> SetVal({})]>> : n \in Nodes}
           \cup {<<[k |-> n, v |-> SetVal(x)], [k |-> m, v |-> SetVal(y)]>> :
                    <<n, m, x, y>> \in
                        {t \in Nodes \X Nodes \X (SUBSET Nodes) \X (SUBSET Nodes) :
                            /\ t[1] # t[2]
                            /\ t[3] \subseteq {t[2]}
                            /\ t[4] \subseteq {t[1]}}}

NoItem == [kind |-> "none", adj |-> <<>>, name |-> ""]

Items ==
    {[kind |-> "System", adj |-> h, name |-> ""] : h \in Adjacencies}
        \cup {[kind |-> "Node", adj |-> <<>>, name |-> n] : n \in Nodes}
        \cup {[kind |-> "int", adj |-> <<>>, name |-> ""]}

\* The record of a call: its name, its arguments and how it ended.
Call(op, node, stop, ancGiven, anc, descGiven, desc, item, res) ==
    [op |-> op, node |-> node, stop |-> stop, ancGiven |-> ancGiven, anc |-> anc,
     descGiven |-> descGiven, desc |-> desc, item |-> item, res |-> res]

(***************************************************************************)
(* The state machine: one action per public method of System               *)
(***************************************************************************)
\* System() has a defaultdict(set); System(contents = {}) a plain dict.
Init ==
    /\ contents = <<>>
    /\ vivify \in BOOLEAN
    /\ pre = <<>>
    /\ last = Call("none", "", "", FALSE, <<>>, FALSE, {}, NoItem, "ok")
    /\ pc = "idle"
    /\ steps = 0
    /\ out = NoOut

\* What every call does besides its own effect.
Called ==
    /\ pc = "idle"
    /\ steps < MaxOps
    /\ pc' = "returned"
    /\ pre' = contents
    /\ steps' = steps + 1

Add ==
    /\ Called
    /\ \E node \in Nodes, ancGiven \in BOOLEAN, anc \in NodeLists,
          descGiven \in BOOLEAN, desc \in SUBSET Nodes :
        /\ ~ancGiven => anc = <<>>
        /\ ~descGiven => desc = {}
        /\ LET r == AddOp(contents, node, ancGiven, anc, descGiven, desc)
           IN /\ contents' = r.c
              /\ last' = Call("add", node, "", ancGiven, anc, descGiven, desc,
                              NoItem, r.res)
    /\ out' = NoOut
    /\ UNCHANGED vivify

Connect ==
    /\ Called
    /\ \E start \in Nodes, stop \in Nodes :
        LET r == ConnectOp(contents, start, stop)
        IN /\ contents' = r.c
           /\ last' = Call("connect", start, stop, FALSE, <<>>, FALSE, {},
                           NoItem, r.res)
    /\ out' = NoOut
    /\ UNCHANGED vivify

Delete ==
    /\ Called
    /\ \E node \in Nodes :
        LET r == DeleteOp(contents, node)
        IN /\ contents' = r.c
           /\ vivify' = (vivify /\ ~r.plain)
           /\ last' = Call("delete", node, "", FALSE, <<>>, FALSE, {},
                           NoItem, r.res)
    /\ out' = NoOut

Disconnect ==
    /\ Called
    /\ \E start \in Nodes, stop \in Nodes :
        LET r == DisconnectOp(contents, vivify, start, stop)
        IN /\ contents' = r.c
           /\ last' = Call("disconnect", start, stop, FALSE, <<>>, FALSE, {},
                           NoItem, r.res)
    /\ out' = NoOut
    /\ UNCHANGED vivify

Merge ==
    /\ Called
    /\ \E item \in Items :
        LET r == MergeOp(contents, item)
        IN /\ contents' = r.c
           /\ last' = Call("merge", "", "", FALSE, <<>>, FALSE, {}, item, r.res)
    /\ out' = NoOut
    /\ UNCHANGED vivify

AppendItem ==
    /\ Called
    /\ \E item \in Items, ord \in Orders :
        LET r == AppendOp(contents, item, ord)
        IN /\ contents' = r.c
           /\ last' = Call("append", "", "", FALSE, <<>>, FALSE, {}, item, r.res)
    /\ out' = NoOut
    /\ UNCHANGED vivify

Prepend ==
    /\ Called
    /\ \E item \in Items :
        LET r == PrependOp(contents, item)
        IN /\ contents' = r.c
           /\ last' = Call("prepend", "", "", FALSE, <<>>, FALSE, {}, item, r.res)
    /\ out' = NoOut
    /\ UNCHANGED vivify

\* The caller has seen how the call ended and is ready for the next one.
NoCall == Call("none", "", "", FALSE, <<>>, FALSE, {}, NoItem, "ok")

Return ==
    /\ pc = "returned"
    /\ pc' = "idle"
    /\ pre' = <<>>
    /\ last' = NoCall
    /\ out' = NoOut
    /\ UNCHANGED <<contents, vivify, steps>>

Next ==
    \/ Add \/ Connect \/ Delete \/ Disconnect \/ Merge \/ AppendItem
    \/ Prepend \/ Return

Spec == Init /\ [][Next]_vars

\* The calls that edit single nodes and edges, on a System that starts empty.
NextEdit == Add \/ Connect \/ Delete \/ Disconnect \/ Return

SpecEdit == Init /\ [][NextEdit]_vars

(***************************************************************************)
(* Queries on a System built from a given adjacency                        *)
(***************************************************************************)
\* Node labels of the queried graphs.
QNodes == Nodes \cup {"d"}

\* The adjacency {a: {b, c}, b: {d}, c: {d}, d: set()}.
Diamond ==
    << [k |-> "a", v |-> SetVal({"b", "c"})], [k |-> "b", v |-> SetVal({"d"})],
       [k |-> "c", v |-> SetVal({"d"})], [k |-> "d", v |-> SetVal({})] >>

\* Lists of distinct nodes, the key orders a dict over Nodes can have.
KeyLists ==
    {l \in UNION {[1..n -> Nodes] : n \in 0..Cardinality(Nodes)} :
        \A i \in DOMAIN l, j \in DOMAIN l : l[i] = l[j] => i = j}

\* System(contents = ...): the well-formed adjacencies over Nodes, loops and
\* cycles included, in every key order, and the diamond.
Systems ==
    {Diamond} \cup
    UNION {{[i \in DOMAIN ks |-> [k |-> ks[i], v |-> SetVal(f[i])]] :
                f \in [DOMAIN ks -> SUBSET Elems(ks)]} : ks \in KeyLists}

InitQuery ==
    /\ contents \in Systems
    /\ vivify \in BOOLEAN
    /\ pre = <<>>
    /\ last = NoCall
    /\ pc = "idle"
    /\ steps = 0
    /\ out = NoOut

Subset ==
    /\ Called
    /\ \E incGiven \in BOOLEAN, inc \in NodeLists,
          excGiven \in BOOLEAN, exc \in SUBSET Nodes :
        /\ ~incGiven => inc = <<>>
        /\ ~excGiven => exc = {}
        /\ LET r == SubsetOp(contents, incGiven, inc, excGiven, exc)
           IN /\ contents' = r.self
              /\ out' = r.new
              /\ last' = Call("subset", "", "", incGiven, inc, excGiven, exc,
                              NoItem, r.res)
    /\ UNCHANGED vivify

\* The caller changes the graph subset returned: add(node) on it.  Only when
\* that graph is the queried graph itself does the queried graph change.
MutateReturned ==
    /\ pc = "returned"
    /\ last.op = "subset"
    /\ out.kind = "System"
    /\ \E node \in QNodes :
        LET r == AddOp(out.c, node, FALSE, <<>>, FALSE, {})
        IN /\ out' = [out EXCEPT !.c = r.c]
           /\ contents' = IF out.same THEN r.c ELSE contents
    /\ pc' = "mutated"
    /\ UNCHANGED <<vivify, pre, last, steps>>

\* The orders in which a set of nodes may be iterated.
QOrders == {Append(o, "d") : o \in Orders}

\* What every query does: the lookups it makes are all it does to the dict.
Query(op, start, stop, res, lookups) ==
    /\ Called
    /\ last' = Call(op, start, stop, FALSE, <<>>, FALSE, {}, NoItem, res)
    /\ contents' = Looked(contents, vivify, lookups)
    /\ UNCHANGED vivify

GetRoot ==
    LET r == RootOp(contents)
    IN /\ Query("root", "", "", r.res, {})
       /\ out' = IF r.res = "ok" THEN [kind |-> "set", s |-> r.val] ELSE NoOut

GetEndpoint ==
    /\ Query("endpoint", "", "", "ok", EndpointLookups(contents))
    /\ out' = [kind |-> "set", s |-> Endpoint(contents)]

GetNodes ==
    /\ Query("nodes", "", "", "ok", {})
    /\ out' = [kind |-> "set", s |-> Keys(contents)]

Walk ==
    \E start \in QNodes, stop \in QNodes, ord \in QOrders :
        /\ Query("walk", start, stop, "ok",
                 WalkLookups(contents, start, stop, <<>>))
        /\ out' = [kind |-> "paths",
                   paths |-> WalkOp(contents, start, stop, <<>>, ord)]

Paths ==
    \E ord \in QOrders :
        LET r == RootOp(contents)
        IN /\ Query("paths", "", "", r.res,
                    IF r.res = "ok"
                        THEN PathsLookups(contents, r.val, Endpoint(contents))
                        ELSE {})
           /\ out' = IF r.res = "ok"
                         THEN [kind |-> "paths",
                               paths |-> FindAllPaths(contents, r.val,
                                                      Endpoint(contents), ord)]
                         ELSE NoOut

\* System.matrix, which hands self.contents to adjacency_to_matrix.
AdjacencyToMatrix ==
    LET r == AdjacencyToMatrixOp(contents, vivify)
    IN /\ Called
       /\ last' = Call("matrix", "", "", FALSE, <<>>, FALSE, {}, NoItem, r.res)
       /\ contents' = r.c
       /\ out' = IF r.res = "ok"
                     THEN [kind |-> "Matrix", matrix |-> r.matrix,
                           names |-> r.names]
                     ELSE NoOut
       /\ UNCHANGED vivify

\* The matrix just returned is converted back.
MatrixToAdjacency ==
    /\ pc = "returned"
    /\ last.op = "matrix"
    /\ out.kind = "Matrix"
    /\ LET r == MatrixToAdjacencyOp(out.matrix, out.names)
       IN out' = IF r.res = "ok" THEN [kind |-> "Adjacency", c |-> r.c]
                                 ELSE NoOut
    /\ pc' = "converted"
    /\ UNCHANGED <<contents, vivify, pre, last, steps>>

NextQuery ==
    \/ Subset \/ MutateReturned
    \/ GetRoot \/ GetEndpoint \/ GetNodes \/ Walk \/ Paths
    \/ AdjacencyToMatrix \/ MatrixToAdjacency

SpecQuery == InitQuery /\ [][NextQuery]_vars

(***************************************************************************)
(* Two Systems, one merged into the other                                  *)
(***************************************************************************)
\* The other graph y after a call on graph x has turned x into x1: the sets
\* the two graphs share (under the keys 'shared') are changed in place by
\* set.add and set.discard, so y sees what x1 holds there.
SeenBy(y, x1, shared) ==
    [i \in DOMAIN y |->
        IF y[i].k \in shared /\ Has(x1, y[i].k) /\ Get(x1, y[i].k).isset
            THEN [k |-> y[i].k, v |-> Get(x1, y[i].k)]
            ELSE y[i]]

\* One call on graph x, a dict or (viv) a defaultdict, while graph y shares
\* the sets under the keys 'shared' with it.  add binds a new set to the
\* node; connect and disconnect change sets in place; delete drops the key,
\* discards the node from every set in place and then binds None to all.
SharedCall(x, viv, y, shared, op, node, stop) ==
    IF op = "add"
        THEN LET r == AddOp(x, node, FALSE, <<>>, FALSE, {})
             IN [x |-> r.c, viv |-> viv, y |-> y, shared |-> shared \ {node},
                 res |-> r.res]
    ELSE IF op = "connect"
        THEN LET r == ConnectOp(x, node, stop)
             IN [x |-> r.c, viv |-> viv, y |-> SeenBy(y, r.c, shared),
                 shared |-> shared, res |-> r.res]
    ELSE IF op = "disconnect"
        THEN LET r == DisconnectOp(x, viv, node, stop)
             IN [x |-> r.c, viv |-> viv, y |-> SeenBy(y, r.c, shared),
                 shared |-> shared, res |-> r.res]
    ELSE LET r == DeleteOp(x, node)
             left == shared \ {node}
         IN IF r.res = "KeyError"
                THEN [x |-> r.c, viv |-> viv, y |-> y, shared |-> shared,
                      res |-> r.res]
            ELSE IF r.res = "ok"
                THEN [x |-> r.c, viv |-> FALSE,
                      y |-> [i \in DOMAIN y |->
                                IF y[i].k \in left /\ y[i].v.isset
                                    THEN [k |-> y[i].k,
                                          v |-> SetVal(y[i].v.s \ {node})]
                                    ELSE y[i]],
                      shared |-> {}, res |-> r.res]
            ELSE [x |-> r.c, viv |-> viv, y |-> SeenBy(y, r.c, left),
                  shared |-> left, res |-> r.res]

\* G is 'contents'; H is held in 'out' with the keys under which G holds
\* the very sets of H.
InitShared ==
    /\ contents \in Adjacencies
    /\ vivify \in BOOLEAN
    /\ pre = <<>>
    /\ last = NoCall
    /\ pc = "idle"
    /\ steps = 0
    /\ \E h \in Adjacencies, viv \in BOOLEAN :
          out = [kind |-> "System", c |-> h, viv |-> viv, shared |-> {},
                 merged |-> FALSE]

\* G.merge(H): dict.update stores H's own sets in G.
MergeSystem ==
    /\ Called
    /\ ~out.merged
    /\ LET item == [kind |-> "System", adj |-> out.c, name |-> ""]
           r == MergeOp(contents, item)
       IN /\ contents' = r.c
          /\ last' = Call("merge", "", "", FALSE, <<>>, FALSE, {}, item, r.res)
          /\ out' = [out EXCEPT !.merged = TRUE,
                                !.shared = {k \in Keys(out.c) : Get(out.c, k).isset}]
    /\ UNCHANGED vivify

\* A later add, connect, disconnect or delete on G ("self") or on H ("item").
\* The call record keeps the other graph as it was before the call.
CallAfterMerge ==
    /\ Called
    /\ out.merged
    /\ \E op \in {"add", "connect", "disconnect", "delete"},
          node \in Nodes, stop \in Nodes :
        /\ op \in {"add", "delete"} => stop = node
        /\ \/ LET r == SharedCall(contents, vivify, out.c, out.shared,
                                  op, node, stop)
              IN /\ contents' = r.x
                 /\ vivify' = r.viv
                 /\ out' = [out EXCEPT !.c = r.y, !.shared = r.shared]
                 /\ last' = Call(op, node, stop, FALSE, <<>>, FALSE, {},
                                 [kind |-> "System", adj |-> out.c,
                                  name |-> "self"], r.res)
           \/ LET r == SharedCall(out.c, out.viv, contents, out.shared,
                                  op, node, stop)
              IN /\ contents' = r.y
                 /\ vivify' = vivify
                 /\ out' = [out EXCEPT !.c = r.x, !.viv = r.viv,
                                       !.shared = r.shared]
                 /\ last' = Call(op, node, stop, FALSE, <<>>, FALSE, {},
                                 [kind |-> "System", adj |-> out.c,
                                  name |-> "item"], r.res)

ReturnShared ==
    /\ pc = "returned"
    /\ pc' = "idle"
    /\ pre' = <<>>
    /\ last' = NoCall
    /\ UNCHANGED <<contents, vivify, steps, out>>

NextShared == MergeSystem \/ CallAfterMerge \/ ReturnShared

SpecShared == InitShared /\ [][NextShared]_vars

(***************************************************************************)
(* System.walk, one call and one loop pass at a time                       *)
(***************************************************************************)
\* A guard that lets every successor through.
OnPathNever(node, path) == FALSE

\* 'node in path', the test that keeps walk off the nodes it has passed.
OnPath(node, path) == node \in Elems(path)

\* The frame of walk(start, stop, path) when its loop begins, or, with an
\* empty 'todo', when it returns at once: 'path' is path + [start], 'todo'
\* the successors still to visit, 'paths' the paths found so far.
Frame(c, start, stop, path, ord) ==
    LET new == Append(path, start)
    IN IF start = stop THEN [path |-> new, todo |-> <<>>, paths |-> <<new>>]
       ELSE IF ~Has(c, start) THEN [path |-> new, todo |-> <<>>, paths |-> <<>>]
       ELSE [path |-> new, todo |-> Listed(Get(c, start).s, ord),
             paths |-> <<>>]

\* The graphs walked: the well-formed adjacencies with their keys in one
\* order, loops and cycles included, and the diamond.
WalkGraphs ==
    {c \in Systems : KeyList(c) = Listed(Keys(c), <<"a", "b", "c", "d">>)}

InitWalk ==
    /\ contents \in WalkGraphs
    /\ vivify = TRUE
    /\ pre = <<>>
    /\ last = NoCall
    /\ pc = "idle"
    /\ steps = 0
    /\ out = NoOut

\* walk(start, stop) is called.
WalkCall ==
    /\ pc = "idle"
    /\ steps < MaxOps
    /\ \E start \in QNodes, stop \in QNodes, ord \in QOrders :
        /\ last' = Call("walk", start, stop, FALSE, <<>>, FALSE, {}, NoItem, "ok")
        /\ out' = [kind |-> "walking", ord |-> ord,
                   stack |-> <<Frame(contents, start, stop, <<>>, ord)>>]
    /\ pc' = "walking"
    /\ pre' = contents
    /\ steps' = steps + 1
    /\ UNCHANGED <<contents, vivify>>

\* One pass of the loop of the innermost call: the next successor is skipped
\* when it is on the path and walked otherwise.
WalkVisit ==
    /\ pc = "walking"
    /\ LET top == out.stack[Len(out.stack)]
           node == Head(top.todo)
           rest == [out.stack EXCEPT ![Len(out.stack)].todo = Tail(top.todo)]
       IN /\ top.todo # <<>>
          /\ Len(out.stack) < MaxDepth
          /\ out' = [out EXCEPT !.stack =
                        IF OnPath(node, top.path) THEN rest
                        ELSE Append(rest, Frame(contents, node, last.stop,
                                                top.path, out.ord))]
    /\ UNCHANGED <<contents, vivify, pc, pre, last, steps>>

\* The innermost call returns its paths: to the call that made it, which
\* appends them to its own, or to the caller of walk.
WalkReturn ==
    /\ pc = "walking"
    /\ LET n == Len(out.stack)
           top == out.stack[n]
       IN /\ top.todo = <<>>
          /\ IF n = 1
                THEN /\ out' = [kind |-> "paths", paths |-> top.paths]
                     /\ pc' = "returned"
                ELSE /\ out' = [out EXCEPT !.stack =
                                   [SubSeq(out.stack, 1, n - 1) EXCEPT
                                       ![n - 1].paths = @ \o top.paths]]
                     /\ pc' = pc
    /\ UNCHANGED <<contents, vivify, pre, last, steps>>

NextWalk == WalkCall \/ WalkVisit \/ WalkReturn

SpecWalk ==
    InitWalk /\ [][NextWalk]_vars /\ WF_vars(WalkVisit) /\ WF_vars(WalkReturn)

(***************************************************************************)
(* composite.Node: equality and hashing                                    *)
(***************************************************************************)
\* The item a converter is given.
ConvertItem(kind, value) ==
    Call("none", "", "", FALSE, <<>>, FALSE, {},
         [kind |-> kind, adj |-> value, name |-> ""], "ok")

\* Names and payloads of the nodes compared.
NodeNames == Nodes

Payloads == {"p", "q"}

\* Node(contents, name) after __post_init__: a name that is given is kept.
NodeValues == [name : NodeNames, contents : Payloads]

\* str(name) of a name that is a str.
Str(name) == name

\* hash(name) of a str: equal for equal strings, not always different for
\* different ones.
HashStr(name) == IF name \in {"a", "p"} THEN 1 ELSE 2

\* A hash taken from the payload instead of the name.
NodeHashOfContents(x) == HashStr(x.contents)

\* Node.__hash__
NodeHash(x) == HashStr(x.name)

\* Node.__eq__(x, y) for a y that has a name.
NodeEq(x, y) == Str(x.name) = Str(y.name)

\* Node.__ne__
NodeNe(x, y) == ~NodeEq(x, y)

\* Three nodes are held in 'last' until they are compared.
InitNode ==
    /\ contents = <<>>
    /\ vivify = TRUE
    /\ pre = <<>>
    /\ \E x \in NodeValues, y \in NodeValues, z \in NodeValues :
          last = ConvertItem("Nodes", <<x, y, z>>)
    /\ pc = "idle"
    /\ steps = 0
    /\ out = NoOut

\* x == y, x != y and hash(x) for all of them.
CompareNodes ==
    /\ Called
    /\ last.item.kind = "Nodes"
    /\ last' = [last EXCEPT !.op = "compare"]
    /\ LET ns == last.item.adj
       IN out' = [kind |-> "Comparison",
                  eq |-> [i \in DOMAIN ns |-> [j \in DOMAIN ns |-> NodeEq(ns[i], ns[j])]],
                  ne |-> [i \in DOMAIN ns |-> [j \in DOMAIN ns |-> NodeNe(ns[i], ns[j])]],
                  hash |-> [i \in DOMAIN ns |-> NodeHash(ns[i])]]
    /\ UNCHANGED <<contents, vivify>>

NextNode == CompareNodes

SpecNode == InitNode /\ [][NextNode]_vars

(***************************************************************************)
(* The converters of organizers/convert.py, applied to a given item        *)
(***************************************************************************)
\* Lists of edges: pairs of nodes, loops and repeats included.
EdgeLists == UNION {[1..n -> Nodes \X Nodes] : n \in 0..MaxEdges}

\* Lists of nodes, repeats included, and single nodes.
Linears ==
    {[kind |-> "Linear", adj |-> l, name |-> ""] :
        l \in UNION {[1..n -> Nodes] : n \in 0..MaxLen}}
        \cup {[kind |-> "Node", adj |-> <<>>, name |-> n] : n \in Nodes}

\* Square 0/1 matrices with distinct nodes as labels.
Matrices ==
    UNION {{[kind |-> "Matrix", adj |-> [matrix |-> m, names |-> l], name |-> ""] :
                m \in [1..n -> [1..n -> {0, 1}]],
                l \in {k \in KeyLists : Len(k) = n}} : n \in 0..MaxSide}

\* An adjacency to convert is held in 'contents' (a dict or a
\* defaultdict(set)), any other item in 'last' until the converter is called.
InitConvert ==
    /\ \/ /\ contents \in Systems
          /\ vivify \in BOOLEAN
          /\ last = ConvertItem("Adjacency", <<>>)
       \/ /\ contents = <<>>
          /\ vivify = TRUE
          /\ \/ \E edges \in EdgeLists : last = ConvertItem("Edges", edges)
             \/ \E item \in Linears : last = [NoCall EXCEPT !.item = item]
             \/ \E item \in Matrices : last = [NoCall EXCEPT !.item = item]
    /\ pre = <<>>
    /\ pc = "idle"
    /\ steps = 0
    /\ out = NoOut

EdgesToAdjacency ==
    /\ Called
    /\ last.item.kind = "Edges"
    /\ last' = [last EXCEPT !.op = "edges_to_adjacency"]
    /\ out' = [kind |-> "Adjacency", c |-> EdgesToAdjacencyOp(last.item.adj)]
    /\ UNCHANGED <<contents, vivify>>

AdjacencyToEdges ==
    /\ Called
    /\ last.item.kind = "Adjacency"
    /\ last' = [last EXCEPT !.op = "adjacency_to_edges"]
    /\ \E ord \in QOrders :
          out' = [kind |-> "Edges", edges |-> AdjacencyToEdgesOp(contents, ord)]
    /\ UNCHANGED <<contents, vivify>>

\* The edges just returned are converted back.
EdgesBackToAdjacency ==
    /\ pc = "returned"
    /\ last.op = "adjacency_to_edges"
    /\ out' = [kind |-> "Adjacency", c |-> EdgesToAdjacencyOp(out.edges)]
    /\ pc' = "converted"
    /\ UNCHANGED <<contents, vivify, pre, last, steps>>

LinearToAdjacency ==
    /\ Called
    /\ last.item.kind \in {"Linear", "Node"}
    /\ LET r == LinearToAdjacencyOp(last.item)
       IN /\ last' = [last EXCEPT !.op = "linear_to_adjacency", !.res = r.res]
          /\ out' = IF r.res = "ok" THEN [kind |-> "Adjacency", c |-> r.c]
                                    ELSE NoOut
    /\ UNCHANGED <<contents, vivify>>

\* matrix_to_adjacency((matrix, names)) of a given matrix.
MatrixItemToAdjacency ==
    /\ Called
    /\ last.item.kind = "Matrix"
    /\ LET r == MatrixToAdjacencyOp(last.item.adj.matrix, last.item.adj.names)
       IN /\ last' = [last EXCEPT !.op = "matrix_to_adjacency", !.res = r.res]
          /\ out' = IF r.res = "ok" THEN [kind |-> "Adjacency", c |-> r.c]
                                    ELSE NoOut
    /\ UNCHANGED <<contents, vivify>>

\* The adjacency property of the container holding the item.
AdjacencyOfForm ==
    /\ Called
    /\ last.item.kind \in {"Edges", "Linear", "Matrix"}
    /\ LET r == IF last.item.kind = "Edges" THEN EdgesAdjacency(last.item.adj)
                ELSE IF last.item.kind = "Linear"
                    THEN LinearAdjacency(last.item.adj)
                ELSE MatrixAdjacency(last.item.adj.matrix, last.item.adj.names)
       IN /\ last' = [last EXCEPT !.op = "adjacency", !.res = r.res]
          /\ out' = IF r.res = "ok" THEN [kind |-> "Adjacency", c |-> r.c]
                                    ELSE NoOut
    /\ UNCHANGED <<contents, vivify>>

NextConvert ==
    \/ EdgesToAdjacency \/ LinearToAdjacency \/ MatrixItemToAdjacency
    \/ AdjacencyOfForm
    \/ AdjacencyToMatrix
    \/ AdjacencyToEdges \/ EdgesBackToAdjacency

SpecConvert == InitConvert /\ [][NextConvert]_vars

(***************************************************************************)
(* Properties of the System operations                                     *)
(***************************************************************************)
\* Two dicts hold the same keys with the same values.
SameGraph(c1, c2) == AsMap(c1) = AsMap(c2)


\* Every node a dict mentions, as a key or as a successor.
NodesOf(c) == Keys(c) \cup UNION {c[i].v.s : i \in DOMAIN c}

Returned(op) == pc = "returned" /\ last.op = op

\* C1: after every call of add, connect, delete, disconnect or merge that
\* returns normally, every stored value is a set of nodes and every node in
\* some successor set is a key.
C1_AdjacencyInvariant ==
    (/\ pc = "returned"
     /\ last.op \in {"add", "connect", "delete", "disconnect", "merge"}
     /\ last.res = "ok")
        => WellFormed(contents)

\* C2: after connect(start, stop) with start # stop returns, start and stop
\* are both keys and stop is a successor of start.
C2_ConnectAddsBothNodes ==
    (Returned("connect") /\ last.node # last.stop /\ last.res = "ok")
        => /\ Has(contents, last.node)
           /\ Has(contents, last.stop)
           /\ Get(contents, last.node).isset
           /\ last.stop \in Get(contents, last.node).s

\* C3: delete(node) of a key removes the key, leaves node in no successor
\* set, and leaves every other key with its former successors less node.
C3_DeletePurgesNode ==
    (Returned("delete") /\ Has(pre, last.node))
        => /\ Keys(contents) = Keys(pre) \ {last.node}
           /\ \A n \in Keys(contents) :
                Get(contents, n) = SetVal(Get(pre, n).s \ {last.node})

\* C4: disconnect(start, stop) with start not a key fails with KeyError
\* and changes nothing; with start a key and no edge start->stop it returns
\* and changes nothing.
C4_DisconnectMissing ==
    Returned("disconnect")
        => /\ ~Has(pre, last.node)
                => last.res = "KeyError" /\ SameGraph(contents, pre)
           /\ (Has(pre, last.node) /\ last.stop \notin Get(pre, last.node).s)
                => last.res = "ok" /\ SameGraph(contents, pre)

\* C5: connect(x, x) raises the self-loop error (ValueError) and leaves the
\* keys and the successor sets as they were, whether or not x was a key.
C5_SelfLoopRejected ==
    (Returned("connect") /\ last.node = last.stop)
        => last.res = "ValueError" /\ SameGraph(contents, pre)

\* C5 witness: connect(x, x) has been refused on a graph where x is a key
\* with successors.
C5_Witness ==
    /\ Returned("connect")
    /\ last.node = last.stop
    /\ last.res = "ValueError"
    /\ Has(pre, last.node)
    /\ Get(pre, last.node).s # {}

\* C6: add(n, descendants) with a descendant that is not a key raises the
\* missing-node error (KeyError) and leaves keys and successor sets as they
\* were.
C6_AddMissingDescendantAtomic ==
    (Returned("add") /\ last.descGiven /\ ~(last.desc \subseteq Keys(pre)))
        => last.res = "KeyError" /\ SameGraph(contents, pre)

\* C6 witness: such an add has been refused for a node that was already a
\* key with successors.
C6_Witness ==
    /\ Returned("add")
    /\ last.descGiven
    /\ ~(last.desc \subseteq Keys(pre))
    /\ last.res = "KeyError"
    /\ Has(pre, last.node)
    /\ Get(pre, last.node).s # {}

\* C7: add(n, ancestors) with an ancestor that is not a key raises the
\* missing-node error (KeyError) and leaves keys and successor sets as they
\* were.
C7_AddMissingAncestorAtomic ==
    (Returned("add") /\ last.ancGiven /\ ~(Elems(last.anc) \subseteq Keys(pre)))
        => last.res = "KeyError" /\ SameGraph(contents, pre)

\* C8: add(node, ancestors, descendants) with every ancestor and descendant
\* already a key returns; node's successors are the descendants, every
\* ancestor has node as a further successor, and nothing else changes.
C8_AddSucceeds ==
    (/\ Returned("add")
     /\ last.desc \subseteq Keys(pre)
     /\ Elems(last.anc) \subseteq Keys(pre))
        => /\ last.res = "ok"
           /\ Keys(contents) = Keys(pre) \cup {last.node}
           /\ \A n \in Keys(contents) :
                Get(contents, n) =
                    SetVal((IF n = last.node THEN last.desc ELSE Get(pre, n).s)
                             \cup (IF n \in Elems(last.anc) THEN {last.node} ELSE {}))

\* C9: after G.merge(H) every key of H maps to H's successor set for it, and
\* every other key of G keeps its successor set.
C9_MergeReplaces ==
    (Returned("merge") /\ last.item.kind = "System")
        => /\ last.res = "ok"
           /\ Keys(contents) = Keys(pre) \cup Keys(last.item.adj)
           /\ \A n \in Keys(last.item.adj) :
                Get(contents, n) = Get(last.item.adj, n)
           /\ \A n \in Keys(pre) \ Keys(last.item.adj) :
                Get(contents, n) = Get(pre, n)

\* C9 witness: a merge has replaced the successors of a key that had a
\* successor H does not give it.
C9_Witness ==
    /\ Returned("merge")
    /\ last.item.kind = "System"
    /\ \E n \in Keys(pre) \cap Keys(last.item.adj) :
          Get(pre, n).s \ Get(last.item.adj, n).s # {}

\* C10: append(H) for a graph H sharing no node with G returns; G then holds
\* every key and edge of H, every former endpoint of G has every root of H
\* as a further successor, and there is no other new edge.
C10_AppendBipartite ==
    (/\ Returned("append")
     /\ last.item.kind = "System"
     /\ NodesOf(last.item.adj) \cap NodesOf(pre) = {})
        => /\ last.res = "ok"
           /\ Keys(contents) = Keys(pre) \cup Keys(last.item.adj)
           /\ \A n \in Keys(last.item.adj) :
                Get(contents, n) = Get(last.item.adj, n)
           /\ \A n \in Keys(pre) :
                Get(contents, n) =
                    SetVal(Get(pre, n).s
                             \cup (IF n \in Endpoint(pre)
                                       THEN RootOp(last.item.adj).val ELSE {}))

\* C11: prepend(H) for a graph H sharing no node with G returns; G then
\* holds every key and edge of H, and every endpoint of H has every former
\* root of G as a successor.
C11_PrependBipartite ==
    (/\ Returned("prepend")
     /\ last.item.kind = "System"
     /\ NodesOf(last.item.adj) \cap NodesOf(pre) = {})
        => /\ last.res = "ok"
           /\ Keys(pre) \cup Keys(last.item.adj) \subseteq Keys(contents)
           /\ \A n \in Keys(last.item.adj) :
                /\ Get(contents, n).isset
                /\ Get(last.item.adj, n).s \subseteq Get(contents, n).s
                /\ n \in Endpoint(last.item.adj)
                     => RootOp(pre).val \subseteq Get(contents, n).s

\* C12: whenever append(item) raises, the keys and successor sets are as
\* they were before the call.
C12_AppendFailsAtomically ==
    (Returned("append") /\ last.res # "ok") => SameGraph(contents, pre)

\* The exclusion set of the subset call that has just ended: the keys not in
\* include, when include is given, and the keys in exclude, when it is given.
Excluded ==
    (IF last.ancGiven THEN Keys(pre) \ Elems(last.anc) ELSE {})
        \cup (IF last.descGiven THEN Keys(pre) \cap last.desc ELSE {})

\* C13: on a well-formed System, subset with include or exclude given returns
\* a graph whose keys are the original keys minus the exclusion set and whose
\* successor sets are the original ones minus the exclusion set.
C13_SubsetResult ==
    (/\ Returned("subset")
     /\ WellFormed(pre)
     /\ last.ancGiven \/ last.descGiven)
        => /\ last.res = "ok"
           /\ out.kind = "System"
           /\ Keys(out.c) = Keys(pre) \ Excluded
           /\ \A k \in Keys(out.c) :
                Get(out.c, k) = SetVal(Get(pre, k).s \ Excluded)

\* C14: subset, returning or raising, leaves the queried graph as it was, and
\* so does a later change of the graph it returned.
C14_SubsetKeepsOriginal ==
    (pc \in {"returned", "mutated"} /\ last.op = "subset") => contents = pre

\* C14 happens: subset deleted a node from its copy and the caller then
\* changed the returned graph.
C14_Witness ==
    /\ pc = "mutated"
    /\ last.op = "subset"
    /\ Keys(pre) \ Keys(out.c) # {}
    /\ Keys(out.c) \ Keys(pre) # {}

\* C15: on a well-formed System root is the set of keys in no successor set
\* and endpoint the set of keys with an empty successor set; on the diamond
\* root = {a} and endpoint = {d}.
C15_RootAndEndpoint ==
    /\ (Returned("root") /\ WellFormed(pre))
        => /\ last.res = "ok"
           /\ out.kind = "set"
           /\ out.s = {k \in Keys(pre) :
                          \A j \in Keys(pre) : k \notin Get(pre, j).s}
           /\ pre = Diamond => out.s = {"a"}
    /\ (Returned("endpoint") /\ WellFormed(pre))
        => /\ out.kind = "set"
           /\ out.s = {k \in Keys(pre) : Get(pre, k).s = {}}
           /\ pre = Diamond => out.s = {"d"}

\* C15 happens: root has been read on the diamond.
C15_Witness == Returned("root") /\ pre = Diamond /\ out.s = {"a"}

\* The lists of distinct nodes.
DistinctLists ==
    {l \in UNION {[1..n -> QNodes] : n \in 1..Cardinality(QNodes)} :
        \A i \in DOMAIN l, j \in DOMAIN l : l[i] = l[j] => i = j}

\* The simple paths of graph c from start to stop.
SimplePaths(c, start, stop) ==
    {l \in DistinctLists :
        /\ l[1] = start
        /\ l[Len(l)] = stop
        /\ \A i \in 1..(Len(l) - 1) :
              Has(c, l[i]) /\ l[i + 1] \in Get(c, l[i]).s}

\* C16: walk(start, stop) returns the simple paths from start to stop, each
\* of them once; [start] alone when start = stop, and nothing when start is
\* another node than stop and not a key.
C16_WalkSimplePaths ==
    Returned("walk")
        => /\ out.kind = "paths"
           /\ Elems(out.paths) = SimplePaths(pre, last.node, last.stop)
           /\ \A i \in DOMAIN out.paths, j \in DOMAIN out.paths :
                out.paths[i] = out.paths[j] => i = j
           /\ last.node = last.stop => out.paths = <<(<<last.node>>)>>
           /\ (last.node # last.stop /\ ~Has(pre, last.node))
                => out.paths = <<>>

\* C16 happens: walk has found the two paths through the diamond.
C16_Witness ==
    /\ Returned("walk")
    /\ pre = Diamond
    /\ Elems(out.paths) = {<<"a", "b", "d">>, <<"a", "c", "d">>}

\* C17: on a well-formed System paths holds the paths walk finds from every
\* root to every endpoint, and no other; on the diamond these are [a,b,d] and
\* [a,c,d].
C17_PathsUnionOfWalks ==
    (Returned("paths") /\ WellFormed(pre))
        => /\ last.res = "ok"
           /\ out.kind = "paths"
           /\ Elems(out.paths) =
                UNION {SimplePaths(pre, r, e) :
                         r \in RootOp(pre).val, e \in Endpoint(pre)}
           /\ \A ord \in QOrders :
                Elems(out.paths) =
                    UNION {Elems(WalkOp(pre, r, e, <<>>, ord)) :
                             r \in RootOp(pre).val, e \in Endpoint(pre)}
           /\ pre = Diamond
                => /\ Len(out.paths) = 2
                   /\ Elems(out.paths) = {<<"a", "b", "d">>, <<"a", "c", "d">>}

\* C17 happens: paths has been read on the diamond.
C17_Witness == Returned("paths") /\ pre = Diamond /\ Len(out.paths) = 2

\* C18: after any sequence of add, connect, disconnect and delete calls on a
\* System that started empty, no key is in its own successor set.
C18_NoSelfLoop ==
    \A i \in DOMAIN contents :
        contents[i].v.isset => contents[i].k \notin contents[i].v.s

\* C19: adjacency_to_matrix of a well-formed adjacency returns a square 0/1
\* array of side len(keys) with the keys, in order, as labels and with
\* array[i][j] = 1 exactly when labels[j] is a successor of labels[i];
\* matrix_to_adjacency of the result is the adjacency again.
C19_MatrixRoundTrip ==
    /\ (Returned("matrix") /\ WellFormed(pre))
        => /\ last.res = "ok"
           /\ out.kind = "Matrix"
           /\ out.names = KeyList(pre)
           /\ Len(out.matrix) = Len(pre)
           /\ \A i \in DOMAIN out.matrix :
                /\ Len(out.matrix[i]) = Len(pre)
                /\ \A j \in DOMAIN out.matrix[i] :
                     /\ out.matrix[i][j] \in {0, 1}
                     /\ out.matrix[i][j] = 1
                          <=> out.names[j] \in Get(pre, out.names[i]).s
    /\ (pc = "converted" /\ WellFormed(pre))
        => out.kind = "Adjacency" /\ SameGraph(out.c, pre)

\* C20: edges_to_adjacency of a list of edges has as keys the nodes that are
\* the start or the stop of an edge, and t is a successor of s exactly when
\* (s, t) is in the list, however often; [(a, a)] gives {a: {a}}.
C20_EdgesToAdjacency ==
    Returned("edges_to_adjacency")
        => LET edges == Elems(last.item.adj)
           IN /\ Keys(out.c) = {e[1] : e \in edges} \cup {e[2] : e \in edges}
              /\ Len(out.c) = Cardinality(Keys(out.c))
              /\ \A s \in Keys(out.c) :
                    Get(out.c, s) = SetVal({t \in Nodes : <<s, t>> \in edges})
              /\ last.item.adj = <<(<<"a", "a">>)>>
                    => out.c = <<[k |-> "a", v |-> SetVal({"a"})]>>

\* C20 happens: a list with a repeated edge and a loop has been converted.
C20_Witness ==
    /\ Returned("edges_to_adjacency")
    /\ last.item.adj = << <<"a", "b">>, <<"c", "c">>, <<"a", "b">> >>
    /\ Keys(out.c) = {"a", "b", "c"}

\* The keys of graph c that have no successor and are no key's successor.
Isolated(c) ==
    {k \in Keys(c) : Get(c, k).s = {} /\ \A j \in Keys(c) : k \notin Get(c, j).s}

\* C21: adjacency_to_edges of a well-formed adjacency emits one edge for
\* every (key, successor) pair and no other; edges_to_adjacency of these edges
\* is the adjacency without its isolated keys, hence the adjacency itself when
\* no key is isolated.
C21_EdgesRoundTrip ==
    /\ (Returned("adjacency_to_edges") /\ WellFormed(pre))
        => /\ Elems(out.edges) =
                {e \in QNodes \X QNodes :
                    Has(pre, e[1]) /\ e[2] \in Get(pre, e[1]).s}
           /\ \A i \in DOMAIN out.edges, j \in DOMAIN out.edges :
                out.edges[i] = out.edges[j] => i = j
    /\ (pc = "converted" /\ last.op = "adjacency_to_edges" /\ WellFormed(pre))
        => /\ Keys(out.c) = Keys(pre) \ Isolated(pre)
           /\ \A k \in Keys(out.c) : Get(out.c, k) = Get(pre, k)
           /\ Isolated(pre) = {} => SameGraph(out.c, pre)

\* C21 happens: a graph with an isolated key and with edges has gone through
\* both converters.
C21_Witness ==
    /\ pc = "converted"
    /\ last.op = "adjacency_to_edges"
    /\ Isolated(pre) # {}
    /\ Keys(out.c) # {}

\* The nodes of the item linear_to_adjacency has been given, in order.
LinearNodes == IF last.item.kind = "Node" THEN <<last.item.name>> ELSE last.item.adj

\* C22: linear_to_adjacency of a sequence of one node or more returns an
\* adjacency whose keys are the nodes of the sequence, the last included, and
\* whose edges are the consecutive pairs; a single node gives {n: {}}, whether
\* in a list or bare.
C22_LinearToAdjacency ==
    (Returned("linear_to_adjacency") /\ LinearNodes # <<>>)
        => /\ last.res = "ok"
           /\ out.kind = "Adjacency"
           /\ Keys(out.c) = Elems(LinearNodes)
           /\ \A k \in Keys(out.c) :
                Get(out.c, k) =
                    SetVal({LinearNodes[i + 1] :
                              i \in {j \in 1..(Len(LinearNodes) - 1) :
                                       LinearNodes[j] = k}})

\* C23: every converter maps the empty instance of its source to the empty
\* instance of its target: no keys from no edges, from no nodes and from an
\* empty matrix; no edges and an empty matrix without labels from an
\* adjacency without keys.
C23_EmptyToEmpty ==
    /\ Returned("edges_to_adjacency") => (last.item.adj = <<>> => out.c = <<>>)
    /\ (Returned("linear_to_adjacency") /\ last.item.kind = "Linear")
        => (last.item.adj = <<>>
              => last.res = "ok" /\ out.kind = "Adjacency" /\ out.c = <<>>)
    /\ Returned("matrix_to_adjacency")
        => (last.item.adj.matrix = <<>>
              => last.res = "ok" /\ out.kind = "Adjacency" /\ out.c = <<>>)
    /\ Returned("adjacency_to_edges") => (pre = <<>> => out.edges = <<>>)
    /\ Returned("matrix")
        => (pre = <<>>
              => /\ last.res = "ok"
                 /\ out.kind = "Matrix"
                 /\ out.matrix = <<>>
                 /\ out.names = <<>>)

\* C24: a converter leaves its argument as it was: after adjacency_to_edges
\* and after adjacency_to_matrix the adjacency handed in, a defaultdict
\* included, has the keys and successor sets it had before the call.
C24_ConvertersKeepInput ==
    (Returned("adjacency_to_edges") \/ Returned("matrix"))
        => Keys(contents) = Keys(pre) /\ SameGraph(contents, pre)

\* C25: after G.merge(H) a connect, disconnect, add or delete on G leaves the
\* keys and successor sets of H as they were, and one on H leaves G as it was.
C25_MergeSharesNothing ==
    (pc = "returned" /\ last.op \in {"add", "connect", "disconnect", "delete"})
        => /\ last.item.name = "self" => SameGraph(out.c, last.item.adj)
           /\ last.item.name = "item" => SameGraph(contents, pre)

\* C26: two Nodes are equal exactly when their names are, whatever they
\* hold; equality is reflexive, symmetric and transitive, != is its negation,
\* and equal Nodes have equal hashes.
C26_NodeEquality ==
    Returned("compare")
        => LET ns == last.item.adj
               I == DOMAIN ns
           IN /\ \A i \in I, j \in I : out.eq[i][j] <=> ns[i].name = ns[j].name
              /\ \A i \in I : out.eq[i][i]
              /\ \A i \in I, j \in I : out.eq[i][j] => out.eq[j][i]
              /\ \A i \in I, j \in I, k \in I :
                    out.eq[i][j] /\ out.eq[j][k] => out.eq[i][k]
              /\ \A i \in I, j \in I : out.ne[i][j] <=> ~out.eq[i][j]
              /\ \A i \in I, j \in I : out.eq[i][j] => out.hash[i] = out.hash[j]

\* C26 happens: two Nodes with one name and different payloads have been
\* compared, and so have two with different names.
C26_Witness ==
    /\ Returned("compare")
    /\ last.item.adj[1].name = last.item.adj[2].name
    /\ last.item.adj[1].contents # last.item.adj[2].contents
    /\ out.eq[1][2]
    /\ ~out.eq[1][3]

\* C27: the adjacency property of Edges, Linear and Matrix gives what the
\* converter for that encoding gives for the same contents (and labels).
C27_FormAdjacencyAgrees ==
    Returned("adjacency")
        => LET hub == IF last.item.kind = "Edges"
                          THEN [c |-> EdgesToAdjacencyOp(last.item.adj),
                                res |-> "ok"]
                      ELSE IF last.item.kind = "Linear"
                          THEN LinearToAdjacencyOp(last.item)
                      ELSE MatrixToAdjacencyOp(last.item.adj.matrix,
                                               last.item.adj.names)
           IN hub.res = "ok"
                => last.res = "ok" /\ out.kind = "Adjacency" /\ out.c = hub.c

\* C28: walk terminates on every finite graph, cycles and loops included:
\* the recursion is never deeper than the number of distinct nodes, and every
\* call of walk returns.
C28_WalkTerminates ==
    /\ [](pc = "walking"
            => Len(out.stack) <= Cardinality(NodesOf(contents) \cup {last.node}))
    /\ (pc = "walking" ~> pc = "returned")

\* C28 happens: walk has returned from a graph in which every node is on a
\* cycle and has a loop, with the paths the recursion finds.
C28_Witness ==
    /\ pc = "returned"
    /\ last.op = "walk"
    /\ Keys(pre) = Nodes
    /\ \A k \in Nodes : Get(pre, k).s = Nodes
    /\ last.node # last.stop
    /\ Len(out.paths) = 2
    /\ \E ord \in QOrders : out.paths = WalkOp(pre, last.node, last.stop, <<>>, ord)

\* C29: root, endpoint, nodes, paths and walk(start, stop), for keys and for
\* nodes that are no keys, leave the keys and successor sets of the graph, a
\* defaultdict included, as they were.
C29_QueriesReadOnly ==
    (pc = "returned" /\ last.op \in {"root", "endpoint", "nodes", "paths", "walk"})
        => Keys(contents) = Keys(pre) /\ contents = pre

\* C29 happens: walk has been called on a defaultdict that has keys, from a
\* node that is no key to another node.
C29_Witness ==
    /\ Returned("walk")
    /\ vivify
    /\ pre # <<>>
    /\ ~Has(pre, last.node)
    /\ last.node # last.stop

\* C30: add(node) with no descendants given, on a node that is a key with
\* successors, returns and leaves the node with an empty successor set; every
\* other key keeps its successor set, edges to the node included.
C30_AddResetsExisting ==
    (/\ Returned("add")
     /\ ~last.descGiven
     /\ ~last.ancGiven
     /\ Has(pre, last.node)
     /\ Get(pre, last.node).isset
     /\ Get(pre, last.node).s # {})
        => /\ last.res = "ok"
           /\ KeyList(contents) = KeyList(pre)
           /\ Get(contents, last.node) = SetVal({})
           /\ \A k \in Keys(pre) \ {last.node} : Get(contents, k) = Get(pre, k)

\* C30 happens: add has been called on a key that had a successor and was
\* the successor of another key.
C30_Witness ==
    /\ Returned("add")
    /\ ~last.descGiven
    /\ ~last.ancGiven
    /\ Has(pre, last.node)
    /\ Get(pre, last.node).isset
    /\ Get(pre, last.node).s # {}
    /\ \E k \in Keys(pre) \ {last.node} :
          Get(pre, k).isset /\ last.node \in Get(pre, k).s
    /\ Get(contents, last.node) = SetVal({})

====
